---- MODULE Spec2Model ----
(***************************************************************************)
(* A model of wagtailapi/api.py: the read-only listing/detail endpoints    *)
(* for pages, images and documents.  The content store is chosen in Init   *)
(* and never changes; every action is one request handled by one view,     *)
(* wrapped by api_view, followed by the delivery of its response.          *)
(***************************************************************************)
EXTENDS Integers, Sequences, FiniteSets, TLC

VARIABLES titles, api_fields, endpoint, request, collection, response

vars == <<titles, api_fields, endpoint, request, collection, response>>

\* ------------------------------------------------------------------ bounds
\* Entities 1..MaxId exist in each collection.
MaxId == 3
\* A request carries at most MaxParams query parameters.
MaxParams == 2
\* The default of the limit parameter (do_pagination).
DefaultLimit == 20
\* The default of the offset parameter (do_pagination).
DefaultOffset == 0

\* --------------------------------------------------------- small utilities
Min(a, b) == IF a < b THEN a ELSE b
Max(a, b) == IF a > b THEN a ELSE b
Range(s) == {s[i] : i \in 1..Len(s)}
Reverse(s) == [i \in 1..Len(s) |-> s[Len(s) + 1 - i]]
\* An optional value: <<>> when the parameter is absent, <<v>> when given.
None == <<>>
Some(v) == <<v>>
Present(o) == Len(o) = 1
Get(o) == o[1]

\* ------------------------------------------------------ the content store
TitleValues == {1, 2}
Ids == 1..MaxId
\* A page that exists in the store but is not live (excluded by get_queryset).
DraftPageId == MaxId + 1
\* An id that no page has.
MissingId == MaxId + 2

\* The model classes.  "Page" is the base page class and declares nothing;
\* "BlogPage", "Image" and "Document" carry the api_fields of the deployment.
PageKinds == {"Page", "BlogPage"}

\* Django model fields of each class (obj._meta.get_field_by_name succeeds).
NativeFields(kind) ==
    CASE kind = "Page" -> {"id", "title", "slug"}
      [] kind = "BlogPage" -> {"id", "title", "slug", "body"}
      [] kind = "Image" -> {"id", "title", "width", "height"}
      [] kind = "Document" -> {"id", "title"}
      [] kind = "RelatedLink" -> {"id", "link"}

\* Python attributes that are not model fields (hasattr succeeds).
Attributes(kind) == IF kind = "RelatedLink" THEN {} ELSE {"url"}

\* One-level child relations (pages only) and the child class of each.
ChildRelations(kind) == IF kind = "BlogPage" THEN {"related_links"} ELSE {}
ChildModel(rel) == "RelatedLink"

\* The specific class of each page: the site root is a plain Page.
SpecificClass(id) == IF id = 1 THEN "Page" ELSE "BlogPage"
\* The page tree: page 1 is the site root, every other page is its child.
ParentOf(id) == IF id = 1 THEN 0 ELSE 1
PageExists(id) == id \in Ids \cup {DraftPageId}
PageLive(id) == id \in Ids

\* An entity handle: its id and the class it is an instance of.
Entity(id, kind) == [id |-> id, kind |-> kind]

\* The stored value of a model field.
FieldValue(obj, f) ==
    CASE f = "id" -> obj.id
      [] f = "title" -> IF obj.id \in Ids THEN titles[obj.id] ELSE 1
      [] f = "slug" -> obj.id
      [] f = "body" -> MaxId + 1 - obj.id
      [] f = "width" -> 1 + (obj.id % 2)
      [] f = "height" -> 1
      [] f = "link" -> obj.id
      [] OTHER -> 0

\* The declarations a deployment may make: has = FALSE is a class without an
\* api_fields attribute.
DeclChoices ==
    { [has |-> FALSE, names |-> <<>>],
      [has |-> TRUE, names |-> <<"body", "url">>],
      [has |-> TRUE, names |-> <<"title", "body">>],
      [has |-> TRUE, names |-> <<"related_links", "ghost">>] }

\* model.api_fields / hasattr(model, 'api_fields')
HasApiFields(kind) ==
    CASE kind = "Page" -> FALSE
      [] kind = "RelatedLink" -> TRUE
      [] OTHER -> api_fields.has
ModelApiFields(kind) == IF kind = "RelatedLink" THEN <<"link">> ELSE api_fields.names

\* ------------------------------------------------------ the field registry
\* BaseAPIEndpoint.get_api_fields
BaseGetApiFields(kind) == IF HasApiFields(kind) THEN ModelApiFields(kind) ELSE <<>>

\* The fields each endpoint variant puts first.
BaseFields(ep) ==
    CASE ep = "pages" -> <<"title">>
      [] ep = "images" -> <<"title", "width", "height">>
      [] ep = "documents" -> <<"title">>

\* A registry that puts the declared fields before the base fields.
GetApiFieldsDeclaredFirst(ep, kind) == BaseGetApiFields(kind) \o BaseFields(ep)

\* PagesAPIEndpoint / ImagesAPIEndpoint / DocumentsAPIEndpoint.get_api_fields
get_api_fields(ep, kind) == BaseFields(ep) \o BaseGetApiFields(kind)

\* ---------------------------------------------------------- serialization
RECURSIVE OrderedDictPut(_, _)
\* One insertion into an OrderedDict: a new key is appended, an existing key
\* keeps its position and takes the new value.
OrderedDictPut(d, pair) ==
    IF d = <<>> THEN <<pair>>
    ELSE IF Head(d)[1] = pair[1] THEN <<pair>> \o Tail(d)
    ELSE <<Head(d)>> \o OrderedDictPut(Tail(d), pair)

RECURSIVE OrderedDict(_)
\* OrderedDict(data) for a list of (key, value) pairs.
OrderedDict(data) ==
    IF data = <<>> THEN <<>>
    ELSE OrderedDictPut(OrderedDict(SubSeq(data, 1, Len(data) - 1)), data[Len(data)])

Keys(doc) == [i \in 1..Len(doc) |-> doc[i][1]]

\* getattr(obj, relation).all(): the child objects of a page.
ChildObjects(obj, rel) == <<Entity(obj.id, ChildModel(rel))>>

RECURSIVE get_api_data(_, _)
\* get_api_data(obj, fields): the (field_name, value) pairs it yields.
get_api_data(obj, fields) ==
    IF fields = <<>> THEN <<>>
    ELSE LET field_name == Head(fields)
             rest == get_api_data(obj, Tail(fields))
         IN  IF /\ obj.kind \in PageKinds
                /\ field_name \in ChildRelations(obj.kind)
                /\ HasApiFields(ChildModel(field_name))
             THEN <<
                    <<field_name,
                      [i \in 1..Len(ChildObjects(obj, field_name)) |->
                          OrderedDict(get_api_data(ChildObjects(obj, field_name)[i],
                                                   ModelApiFields(ChildModel(field_name))))]>>
                  >> \o rest
             ELSE IF field_name \in NativeFields(obj.kind)
             THEN << <<field_name, FieldValue(obj, field_name)>> >> \o rest
             ELSE IF field_name \in Attributes(obj.kind)
             THEN << <<field_name, obj.id>> >> \o rest
             ELSE rest

\* serialize_object_metadata: empty for images and documents; for pages the
\* type tag and, in a detail view, the parent id.
serialize_object_metadata(ep, obj, show_details) ==
    IF ep = "pages"
    THEN << <<"type", SpecificClass(obj.id)>> >>
         \o (IF show_details THEN << <<"parent_id", ParentOf(obj.id)>> >> ELSE <<>>)
    ELSE <<>>

RECURSIVE NamesAmong(_, _)
\* [field for field in fields if field in api_fields]: a requested piece is
\* a string given as its pieces, so it names a field when it is one name.
NamesAmong(fields, registry) ==
    IF fields = <<>> THEN <<>>
    ELSE (IF Len(Head(fields)) = 1 /\ Head(fields)[1] \in Range(registry)
          THEN <<Head(fields)[1]>> ELSE <<>>) \o NamesAmong(Tail(fields), registry)

\* A field list that never takes the whole registry.
SelectFieldsIgnoreAll(registry, fields, all_fields) == NamesAmong(fields, registry)

\* The field list serialize_object hands to get_api_data.
SelectFields(registry, fields, all_fields) ==
    IF all_fields THEN registry ELSE NamesAmong(fields, registry)

\* BaseAPIEndpoint.serialize_object
serialize_object(ep, obj, fields, all_fields, show_details) ==
    LET metadata == serialize_object_metadata(ep, obj, show_details)
        data == << <<"id", obj.id>> >>
                \o (IF metadata # <<>> THEN << <<"meta", metadata>> >> ELSE <<>>)
        registry == get_api_fields(ep, obj.kind)
    IN  OrderedDict(data \o get_api_data(obj, SelectFields(registry, fields, all_fields)))

\* ------------------------------------------------------- request parsing
Digits == {"0", "1", "2", "3", "4", "5", "6", "7", "8", "9"}
DigitValue(c) ==
    CASE c = "0" -> 0 [] c = "1" -> 1 [] c = "2" -> 2 [] c = "3" -> 3 [] c = "4" -> 4
      [] c = "5" -> 5 [] c = "6" -> 6 [] c = "7" -> 7 [] c = "8" -> 8 [] c = "9" -> 9

RECURSIVE StripLeft(_)
StripLeft(s) == IF s # <<>> /\ Head(s) = " " THEN StripLeft(Tail(s)) ELSE s
Strip(s) == Reverse(StripLeft(Reverse(StripLeft(s))))

RECURSIVE DigitsValue(_)
\* The number a non-empty run of decimal digits denotes.
DigitsValue(s) ==
    IF s = <<>> THEN 0
    ELSE 10 * DigitsValue(SubSeq(s, 1, Len(s) - 1)) + DigitValue(s[Len(s)])

\* Python's int() on a string of characters: surrounding blanks are dropped,
\* one sign is allowed, at least one digit must follow and nothing else.
\* ok = FALSE is ValueError.
IntOf(raw) ==
    LET s == Strip(raw)
        signed == s # <<>> /\ Head(s) \in {"-", "+"}
        body == IF signed THEN Tail(s) ELSE s
        ok == body # <<>> /\ \A i \in 1..Len(body) : body[i] \in Digits
    IN  [ok |-> ok,
         value |-> IF ~ok THEN 0
                   ELSE IF signed /\ Head(s) = "-" THEN 0 - DigitsValue(body)
                   ELSE DigitsValue(body)]

\* ------------------------------------------------------------- querysets
\* A lazy collection handle: the class its objects are instances of, the ids
\* it holds, the ordering (order_by and whether reverse() flipped it) and the
\* slice (offset, and the stop position when one was set).
QuerySet(kind, ids) ==
    [kind |-> kind, ids |-> ids, order_by |-> None, standard_ordering |-> TRUE,
     low_mark |-> 0, high_mark |-> None]

\* The store cannot order by a name that is not a column of the class; the
\* fault surfaces when the collection is iterated.
OrderingFaults(qs) == Present(qs.order_by) /\ Get(qs.order_by) \notin NativeFields(qs.kind)

\* The key a row is ordered by: its id without order_by, else the value of
\* the order_by column.
SortKey(qs, id) ==
    IF Present(qs.order_by) /\ ~OrderingFaults(qs)
    THEN FieldValue(Entity(id, qs.kind), Get(qs.order_by))
    ELSE id

\* Whether a row with key k may come before a row with key l.
MayPrecede(qs, k, l) == IF qs.standard_ordering THEN k <= l ELSE k >= l

RECURSIVE Arrangements(_, _)
\* The sequences in which a store may return the rows ids: any row that may
\* precede all others comes first, so rows with equal keys come in any order.
Arrangements(qs, ids) ==
    IF ids = {} THEN {<<>>}
    ELSE UNION { {<<first>> \o rest : rest \in Arrangements(qs, ids \ {first})} :
                 first \in {id \in ids :
                              \A other \in ids :
                                  MayPrecede(qs, SortKey(qs, id), SortKey(qs, other))} }

\* The sequences a store may return for the unsliced collection.  Without
\* order_by the rows come in id order; with it, in the order of the column
\* (reversed when reverse() was called), rows with equal values in any order.
Evaluate(qs) == Arrangements(qs, qs.ids)

\* queryset.count()
Count(qs) == Cardinality(qs.ids)

\* A slice that starts one row late: seq[start+1:stop+1].
PySliceShifted(seq, start, stop) ==
    SubSeq(seq, start + 2, Min(stop + 1, Len(seq)))

\* seq[start:stop] for 0 <= start <= stop
PySlice(seq, start, stop) == SubSeq(seq, start + 1, Min(stop, Len(seq)))

\* The rows an iteration of the (sliced) collection yields, given the
\* sequence the store returned for the unsliced one.
Rows(qs, seq) ==
    IF Present(qs.high_mark) THEN PySlice(seq, qs.low_mark, Get(qs.high_mark))
    ELSE SubSeq(seq, qs.low_mark + 1, Len(seq))

\* ------------------------------------------------------- pipeline stages
\* A stage's result: status 0 and the new handle, or the error raised.
Ok(qs) == [status |-> 0, message |-> <<>>, qs |-> qs]
Http404(message, qs) == [status |-> 404, message |-> message, qs |-> qs]
BadRequestError(message, qs) == [status |-> 400, message |-> message, qs |-> qs]

\* BaseAPIEndpoint.do_field_filtering: the filterset has one filter per
\* model field; a parameter that names no filter is not looked at.
do_field_filtering(req, qs) ==
    IF Present(req.filter) /\ Get(req.filter).name \in NativeFields(qs.kind)
    THEN Ok([qs EXCEPT !.ids = {id \in qs.ids :
                FieldValue(Entity(id, qs.kind), Get(req.filter).name) = Get(req.filter).value}])
    ELSE Ok(qs)

\* PagesAPIEndpoint.do_child_of_filter
do_child_of_filter(req, qs) ==
    IF Present(req.child_of)
    THEN IF PageExists(Get(req.child_of))
         THEN Ok([qs EXCEPT !.ids = {id \in qs.ids : ParentOf(id) = Get(req.child_of)}])
         ELSE Http404(<<"Parent page doesn't exist">>, qs)
    ELSE Ok(qs)

\* An ordering stage without the registry check.
OrderingAcceptsAll(ep, req, qs) ==
    IF Present(req.order)
    THEN LET raw == Get(req.order)
             reverse_order == raw # <<>> /\ Head(raw) = "-"
             order_by == IF reverse_order THEN Tail(raw) ELSE raw
         IN  IF Len(order_by) = 1
             THEN Ok([qs EXCEPT !.order_by = Some(order_by[1]),
                                !.standard_ordering = ~reverse_order])
             ELSE BadRequestError(<<"cannot order by '">> \o order_by \o <<"' (unknown field)">>, qs)
    ELSE Ok(qs)

\* An ordering stage that never calls reverse().
OrderingNeverReverses(ep, req, qs) ==
    IF Present(req.order)
    THEN LET raw == Get(req.order)
             reverse_order == raw # <<>> /\ Head(raw) = "-"
             order_by == IF reverse_order THEN Tail(raw) ELSE raw
         IN  IF order_by = <<"id">>
                \/ (Len(order_by) = 1 /\ order_by[1] \in Range(get_api_fields(ep, qs.kind)))
             THEN Ok([qs EXCEPT !.order_by = Some(order_by[1])])
             ELSE BadRequestError(<<"cannot order by '">> \o order_by \o <<"' (unknown field)">>, qs)
    ELSE Ok(qs)

\* BaseAPIEndpoint.do_ordering; the order parameter is a string given as its
\* pieces, "-" being the minus sign.
do_ordering(ep, req, qs) ==
    IF Present(req.order)
    THEN LET raw == Get(req.order)
             reverse_order == raw # <<>> /\ Head(raw) = "-"
             order_by == IF reverse_order THEN Tail(raw) ELSE raw
         IN  IF order_by = <<"id">>
                \/ (Len(order_by) = 1 /\ order_by[1] \in Range(get_api_fields(ep, qs.kind)))
             THEN Ok([qs EXCEPT !.order_by = Some(order_by[1]),
                                !.standard_ordering = ~reverse_order])
             ELSE BadRequestError(<<"cannot order by '">> \o order_by \o <<"' (unknown field)">>, qs)
    ELSE Ok(qs)

\* BaseAPIEndpoint.do_search: the backend narrows the collection to the
\* entities whose title matches the query.
do_search(req, qs) ==
    IF Present(req.search)
    THEN Ok([qs EXCEPT !.ids = {id \in qs.ids :
                FieldValue(Entity(id, qs.kind), "title") = Get(req.search)}])
    ELSE Ok(qs)

\* A pagination stage that refuses a limit of 0.
PaginationRejectsZero(req, qs) ==
    LET offset == IF Present(req.offset) THEN IntOf(Get(req.offset))
                  ELSE [ok |-> TRUE, value |-> DefaultOffset]
        limit == IF Present(req.limit) THEN IntOf(Get(req.limit))
                 ELSE [ok |-> TRUE, value |-> DefaultLimit]
    IN  IF ~(offset.ok /\ offset.value >= 0)
        THEN BadRequestError(<<"offset must be a positive integer">>, qs)
        ELSE IF ~(limit.ok /\ limit.value > 0)
        THEN BadRequestError(<<"limit must be a positive integer">>, qs)
        ELSE Ok([qs EXCEPT !.low_mark = offset.value,
                           !.high_mark = Some(offset.value + limit.value)])

\* BaseAPIEndpoint.do_pagination
do_pagination(req, qs) ==
    LET offset == IF Present(req.offset) THEN IntOf(Get(req.offset))
                  ELSE [ok |-> TRUE, value |-> DefaultOffset]
        limit == IF Present(req.limit) THEN IntOf(Get(req.limit))
                 ELSE [ok |-> TRUE, value |-> DefaultLimit]
    IN  IF ~(offset.ok /\ offset.value >= 0)
        THEN BadRequestError(<<"offset must be a positive integer">>, qs)
        ELSE IF ~(limit.ok /\ limit.value >= 0)
        THEN BadRequestError(<<"limit must be a positive integer">>, qs)
        ELSE Ok([qs EXCEPT !.low_mark = offset.value,
                           !.high_mark = Some(offset.value + limit.value)])

\* Counting after the slice was taken.
PaginateThenCount(req, qs) ==
    LET r == do_pagination(req, qs)
    IN  [status |-> r.status, message |-> r.message, qs |-> r.qs,
         total_count |-> IF r.status = 0
                         THEN Len(Rows(r.qs, CHOOSE seq \in Evaluate(qs) : TRUE))
                         ELSE 0]

\* Counting and slicing as the listing views do them: total_count is taken
\* before do_pagination narrows the collection.
CountAndPaginate(req, qs) ==
    LET total_count == Count(qs)
        r == do_pagination(req, qs)
    IN  [status |-> r.status, message |-> r.message, qs |-> r.qs, total_count |-> total_count]

RECURSIVE SplitAt(_, _, _)
\* str.split(sep) on a string given as its pieces.
SplitAt(raw, sep, piece) ==
    IF raw = <<>> THEN <<piece>>
    ELSE IF Head(raw) = sep THEN <<piece>> \o SplitAt(Tail(raw), sep, <<>>)
    ELSE SplitAt(Tail(raw), sep, piece \o <<Head(raw)>>)
Split(raw, sep) == SplitAt(raw, sep, <<>>)

\* ('title', )
TitleOnly == << <<"title">> >>

\* The field list of a pages or images listing.
RequestedFields(req) == IF Present(req.fields) THEN Split(Get(req.fields), ",") ELSE TitleOnly

\* ------------------------------------------------------------- responses
NoResponse == [status |-> 0, message |-> <<>>, keys |-> <<>>, total_count |-> None, items |-> <<>>]

\* api_view: an Http404 or BadRequestError becomes {"message": str(e)}.
ErrorResponse(r) ==
    [status |-> r.status, message |-> r.message, keys |-> <<"message">>,
     total_count |-> None, items |-> <<>>]

\* Any other exception is not caught by api_view.
UnhandledFault ==
    [status |-> 500, message |-> <<>>, keys |-> <<>>, total_count |-> None, items |-> <<>>]

\* json_response of {"meta": {"total_count": n}, name: [documents]}
ListingResponse(name, total_count, documents) ==
    [status |-> 200, message |-> <<>>, keys |-> <<"meta", name>>,
     total_count |-> Some(total_count), items |-> documents]

\* json_response of one serialized object
DetailResponse(document) ==
    [status |-> 200, message |-> <<>>, keys |-> Keys(document),
     total_count |-> None, items |-> <<document>>]

Outcome(resp, seq) == [response |-> resp, collection |-> seq]

\* The tail shared by the three listing views: iterate the sliced collection
\* and serialize each row.
Serialized(ep, name, paged, fields) ==
    IF paged.status # 0 THEN {Outcome(ErrorResponse(paged), <<>>)}
    ELSE IF OrderingFaults(paged.qs) THEN {Outcome(UnhandledFault, <<>>)}
    ELSE {Outcome(ListingResponse(name, paged.total_count,
                     LET rows == Rows(paged.qs, seq)
                     IN  [i \in 1..Len(rows) |->
                            serialize_object(ep, Entity(rows[i], paged.qs.kind),
                                             fields, FALSE, FALSE)]),
                  seq) : seq \in Evaluate(paged.qs)}

\* ------------------------------------------------------------ the views
\* PagesAPIEndpoint.get_model
get_model(req) ==
    IF ~Present(req.type) THEN [status |-> 0, message |-> <<>>, kind |-> "Page"]
    ELSE IF Get(req.type) \in PageKinds
    THEN [status |-> 0, message |-> <<>>, kind |-> Get(req.type)]
    ELSE [status |-> 404, message |-> <<"Type doesn't exist">>, kind |-> "Page"]

\* PagesAPIEndpoint.get_queryset: the live pages of the site that are
\* instances of the model.
PagesQueryset(kind) ==
    QuerySet(kind, {id \in Ids : PageLive(id) /\ (kind = "Page" \/ SpecificClass(id) = kind)})

\* PagesAPIEndpoint.listing_view
PagesListingView(req) ==
    LET model == get_model(req)
        queryset == PagesQueryset(model.kind)
        filtered == do_field_filtering(req, queryset)
        scoped == IF filtered.status = 0 THEN do_child_of_filter(req, filtered.qs) ELSE filtered
        ordered == IF scoped.status = 0 THEN do_ordering("pages", req, scoped.qs) ELSE scoped
        searched == IF ordered.status = 0 THEN do_search(req, ordered.qs) ELSE ordered
    IN  IF model.status # 0 THEN {Outcome(ErrorResponse(model), <<>>)}
        ELSE IF searched.status # 0 THEN {Outcome(ErrorResponse(searched), <<>>)}
        ELSE Serialized("pages", "pages", CountAndPaginate(req, searched.qs),
                        RequestedFields(req))

\* ImagesAPIEndpoint.listing_view
ImagesListingView(req) ==
    LET queryset == QuerySet("Image", Ids)
        filtered == do_field_filtering(req, queryset)
        ordered == IF filtered.status = 0 THEN do_ordering("images", req, filtered.qs) ELSE filtered
        searched == IF ordered.status = 0 THEN do_search(req, ordered.qs) ELSE ordered
    IN  IF searched.status # 0 THEN {Outcome(ErrorResponse(searched), <<>>)}
        ELSE Serialized("images", "images", CountAndPaginate(req, searched.qs),
                        RequestedFields(req))

\* DocumentsAPIEndpoint.listing_view: the field list is always ('title', ).
DocumentsListingView(req) ==
    LET queryset == QuerySet("Document", Ids)
        filtered == do_field_filtering(req, queryset)
        ordered == IF filtered.status = 0 THEN do_ordering("documents", req, filtered.qs) ELSE filtered
        searched == IF ordered.status = 0 THEN do_search(req, ordered.qs) ELSE ordered
    IN  IF searched.status # 0 THEN {Outcome(ErrorResponse(searched), <<>>)}
        ELSE Serialized("documents", "documents", CountAndPaginate(req, searched.qs), TitleOnly)

\* get_object_or_404 raises Http404 when no object of the collection has pk.
NotFound == [status |-> 404, message |-> <<"No object matches the given query.">>]

\* PagesAPIEndpoint.detail_view
PagesDetailView(pk) ==
    IF pk \in PagesQueryset("Page").ids
    THEN DetailResponse(serialize_object("pages", Entity(pk, SpecificClass(pk)), <<>>, TRUE, TRUE))
    ELSE ErrorResponse(NotFound)

\* ImagesAPIEndpoint.detail_view
ImagesDetailView(pk) ==
    IF pk \in Ids
    THEN DetailResponse(serialize_object("images", Entity(pk, "Image"), <<>>, TRUE, FALSE))
    ELSE ErrorResponse(NotFound)

\* DocumentsAPIEndpoint.detail_view
DocumentsDetailView(pk) ==
    IF pk \in Ids
    THEN DetailResponse(serialize_object("documents", Entity(pk, "Document"), <<>>, TRUE, FALSE))
    ELSE ErrorResponse(NotFound)

\* ---------------------------------------------------------- the requests
Opt(S) == {None} \cup {Some(v) : v \in S}

TypeValues == {"BlogPage", "NoSuchPage"}
ChildOfValues == {1, DraftPageId, MissingId}
FilterValues ==
    { [name |-> "title", value |-> 1], [name |-> "title", value |-> 2],
      [name |-> "not_a_field", value |-> 1] }
OrderValues ==
    { <<"id">>, <<"title">>, <<"-", "title">>, <<"body">>,
      <<"slug">>, <<"ghost">>, <<"-", "not_a_field">> }
SearchValues == TitleValues
FieldsValues ==
    { <<"body">>, <<"slug", ",", "title">>, <<"url", ",", "ghost", ",", "related_links">> }
LimitValues == { <<"0">>, <<"1">>, <<"2">>, <<"-", "1">>, <<"a", "b", "c">> }
OffsetValues == { <<"0">>, <<" ", "1">>, <<"+", "2">>, <<"9">>, <<"-", "1">>, <<"a", "b", "c">> }

ParamNames == {"type", "child_of", "filter", "order", "search", "fields", "limit", "offset"}

\* The values of one parameter in a query string that carries the parameters
\* in given and no others.
Given(p, given, values) == IF p \in given THEN {Some(v) : v \in values} ELSE {None}

\* The query strings of a listing that carry at most MaxParams of the
\* parameters in names.
Requests(names) ==
    UNION { [type : Given("type", given, TypeValues),
             child_of : Given("child_of", given, ChildOfValues),
             filter : Given("filter", given, FilterValues),
             order : Given("order", given, OrderValues),
             search : Given("search", given, SearchValues),
             fields : Given("fields", given, FieldsValues),
             limit : Given("limit", given, LimitValues),
             offset : Given("offset", given, OffsetValues),
             pk : {None}] :
            given \in {g \in SUBSET names : Cardinality(g) <= MaxParams} }

\* The query strings of a pages listing.
PagesRequests == Requests(ParamNames)

\* The query strings of an images or documents listing.
FlatRequests == Requests(ParamNames \ {"type", "child_of"})

NoRequest ==
    [type |-> None, child_of |-> None, filter |-> None, order |-> None, search |-> None,
     fields |-> None, limit |-> None, offset |-> None, pk |-> None]
DetailRequest(pk) == [NoRequest EXCEPT !.pk = Some(pk)]

\* The ids a detail URL may carry.
PkValues == 1..MissingId

\* --------------------------------------------------------- the state machine
Init ==
    /\ titles \in [Ids -> TitleValues]
    /\ api_fields \in DeclChoices
    /\ endpoint = "none"
    /\ request = NoRequest
    /\ collection = <<>>
    /\ response = NoResponse

Idle == response.status = 0

Handle(ep, req, out) ==
    /\ endpoint' = ep
    /\ request' = req
    /\ collection' = out.collection
    /\ response' = out.response
    /\ UNCHANGED <<titles, api_fields>>

\* GET /pages/
PagesListing ==
    /\ Idle
    /\ \E req \in PagesRequests : \E out \in PagesListingView(req) : Handle("pages", req, out)

\* GET /images/
ImagesListing ==
    /\ Idle
    /\ \E req \in FlatRequests : \E out \in ImagesListingView(req) : Handle("images", req, out)

\* GET /documents/
DocumentsListing ==
    /\ Idle
    /\ \E req \in FlatRequests : \E out \in DocumentsListingView(req) :
          Handle("documents", req, out)

\* GET /pages/<pk>/
PagesDetail ==
    /\ Idle
    /\ \E pk \in PkValues :
          Handle("pages", DetailRequest(pk), Outcome(PagesDetailView(pk), <<>>))

\* GET /images/<pk>/
ImagesDetail ==
    /\ Idle
    /\ \E pk \in PkValues :
          Handle("images", DetailRequest(pk), Outcome(ImagesDetailView(pk), <<>>))

\* GET /documents/<pk>/
DocumentsDetail ==
    /\ Idle
    /\ \E pk \in PkValues :
          Handle("documents", DetailRequest(pk), Outcome(DocumentsDetailView(pk), <<>>))

\* The response goes out on the wire; nothing of the request is kept.
Deliver ==
    /\ ~Idle
    /\ endpoint' = "none"
    /\ request' = NoRequest
    /\ collection' = <<>>
    /\ response' = NoResponse
    /\ UNCHANGED <<titles, api_fields>>

Next ==
    \/ PagesListing
    \/ ImagesListing
    \/ DocumentsListing
    \/ PagesDetail
    \/ ImagesDetail
    \/ DocumentsDetail
    \/ Deliver

Spec == Init /\ [][Next]_vars

\* get_urlpatterns: the listing view each endpoint routes to.
ListingView(ep, req) ==
    CASE ep = "pages" -> PagesListingView(req)
      [] ep = "images" -> ImagesListingView(req)
      [] ep = "documents" -> DocumentsListingView(req)

\* ===================================================================
\* Properties
\* ===================================================================
IsListing == ~Idle /\ ~Present(request.pk)
IsDetail == ~Idle /\ Present(request.pk)

\* The class whose instances a listing returns.
ModelOf(ep, req) ==
    CASE ep = "pages" -> (IF Present(req.type) THEN Get(req.type) ELSE "Page")
      [] ep = "images" -> "Image"
      [] ep = "documents" -> "Document"

DocId(doc) == doc[1][2]
FieldKeys(doc) == Range(Keys(doc)) \ {"id", "meta"}
NoDuplicates(seq) == \A i, j \in 1..Len(seq) : seq[i] = seq[j] => i = j

\* The non-negative integer a parameter value denotes, None when it denotes
\* none: the table of the values the requests carry.
Denotes(raw) ==
    CASE raw = <<"0">> -> Some(0)
      [] raw = <<"1">> -> Some(1)
      [] raw = <<"2">> -> Some(2)
      [] raw = <<"9">> -> Some(9)
      [] raw = <<" ", "1">> -> Some(1)
      [] raw = <<"+", "2">> -> Some(2)
      [] OTHER -> None
OffsetOf(req) == IF Present(req.offset) THEN Denotes(Get(req.offset)) ELSE Some(0)
LimitOf(req) == IF Present(req.limit) THEN Denotes(Get(req.limit)) ELSE Some(20)

\* The field an order parameter names, without its leading minus sign.
OrderField(req) ==
    LET raw == Get(req.order) IN IF raw # <<>> /\ Head(raw) = "-" THEN Tail(raw) ELSE raw
OrderDescending(req) == Get(req.order) # <<>> /\ Head(Get(req.order)) = "-"
OrderDeclared(ep, req) ==
    \/ OrderField(req) = <<"id">>
    \/ \E i \in 1..Len(get_api_fields(ep, ModelOf(ep, req))) :
          OrderField(req) = <<get_api_fields(ep, ModelOf(ep, req))[i]>>

\* The checks that come before the ordering stage pass.
TypeResolves(ep, req) == ep = "pages" /\ Present(req.type) => Get(req.type) \in PageKinds
ParentExists(ep, req) == ep = "pages" /\ Present(req.child_of) => PageExists(Get(req.child_of))
ReachesOrdering(ep, req) == TypeResolves(ep, req) /\ ParentExists(ep, req)
\* The checks that come before the pagination stage pass.
ReachesPagination(ep, req) ==
    ReachesOrdering(ep, req) /\ (Present(req.order) => OrderDeclared(ep, req))
\* The store can sort the collection: the ordering field is a column.
Sortable(ep, req) ==
    Present(req.order) => OrderField(req)[1] \in NativeFields(ModelOf(ep, req))

\* The entities a listing is about: the base collection of the endpoint
\* narrowed by the field filter, the child_of scope and the search.
MatchingIds(ep, req) ==
    {id \in Ids :
        /\ ep = "pages" /\ ModelOf(ep, req) # "Page" => SpecificClass(id) = ModelOf(ep, req)
        /\ Present(req.filter) /\ Get(req.filter).name = "title"
              => titles[id] = Get(req.filter).value
        /\ ep = "pages" /\ Present(req.child_of) => ParentOf(id) = Get(req.child_of)
        /\ Present(req.search) => titles[id] = Get(req.search)}

IsError(resp) ==
    /\ resp.keys = <<"message">>
    /\ resp.total_count = None
    /\ resp.items = <<>>

\* C1: a successful listing reports as total_count the number of entities
\* that match the filters, the scope and the search of the request with its
\* limit and offset taken away, so that two requests that differ only in
\* limit and offset report the same total_count.
C1_TotalCountIgnoresPaging ==
    IsListing /\ response.status = 200 =>
        response.total_count
          = Some(Cardinality(MatchingIds(endpoint,
                                         [request EXCEPT !.limit = None, !.offset = None])))

\* A listing narrowed by a search whose page is shorter than its total.
C1_Witness ==
    /\ IsListing /\ response.status = 200
    /\ Present(request.search) /\ Present(request.limit)
    /\ Get(response.total_count) = 2
    /\ Len(response.items) = 1

\* C2: a listing request with a parameter that is neither a control
\* parameter nor a field of the kind is answered 400 with a message naming
\* the parameter, never with a 200 listing.
C2_UnknownFilterRejected ==
    /\ IsListing
    /\ Present(request.filter)
    /\ Get(request.filter).name \notin NativeFields(ModelOf(endpoint, request))
    /\ Get(request.filter).name \notin Range(get_api_fields(endpoint, ModelOf(endpoint, request)))
    /\ ReachesOrdering(endpoint, request)
    => /\ response.status = 400
       /\ IsError(response)
       /\ Get(request.filter).name \in Range(response.message)

C3_WitnessSorted ==
    /\ IsListing
    /\ request.order = Some(<<"body">>)
    /\ response.status = 200
    /\ collection = <<3, 2>>

C4_WitnessZero ==
    /\ IsListing
    /\ request.limit = Some(<<"0">>)
    /\ response.status = 200
    /\ response.items = <<>>
    /\ Get(response.total_count) = MaxId

\* C5: a successful listing returns the entities at positions
\* [offset, offset+limit) of the post-search sequence, in order; it returns
\* min(limit, max(0, total_count - offset)) of them, and a valid offset and
\* limit are never refused, however large.
C5_PageIsSlice ==
    /\ IsListing /\ response.status = 200 =>
          LET offset == Get(OffsetOf(request))
              limit == Get(LimitOf(request))
          IN  /\ Range(collection) = MatchingIds(endpoint, request)
              /\ Len(collection) = Get(response.total_count)
              /\ Len(response.items) = Min(limit, Max(0, Len(collection) - offset))
              /\ \A i \in 1..Len(response.items) :
                    /\ offset + i <= offset + limit
                    /\ DocId(response.items[i]) = collection[offset + i]
    /\ /\ IsListing /\ ReachesPagination(endpoint, request)
       /\ OffsetOf(request) # None /\ LimitOf(request) # None
       /\ Sortable(endpoint, request)
       => response.status = 200

\* Offset 2 and limit 1 return the third entity alone.
C5_Witness ==
    /\ IsListing /\ response.status = 200
    /\ request.offset = Some(<<"+", "2">>)
    /\ request.limit = Some(<<"1">>)
    /\ Len(collection) = 3
    /\ Len(response.items) = 1
    /\ DocId(response.items[1]) = collection[3]

\* An offset past the end returns an empty page.
C5_WitnessBeyond ==
    /\ IsListing /\ response.status = 200
    /\ request.offset = Some(<<"9">>)
    /\ response.items = <<>>
    /\ Get(response.total_count) = MaxId

\* The field the collection of a listing is sorted by takes pairwise
\* different values on it.
NoTies(ep, req, seq) ==
    \A i, j \in 1..Len(seq) :
        FieldValue(Entity(seq[i], ModelOf(ep, req)), OrderField(req)[1])
          = FieldValue(Entity(seq[j], ModelOf(ep, req)), OrderField(req)[1]) => i = j

\* The same request asking for ascending order.
Ascending(req) == [req EXCEPT !.order = Some(OrderField(req))]

KindsOf(ep) ==
    CASE ep = "pages" -> PageKinds
      [] ep = "images" -> {"Image"}
      [] ep = "documents" -> {"Document"}

\* What a class declares: nothing for the base page class and for a class
\* without the attribute.
Declared(kind) == IF kind # "Page" /\ api_fields.has THEN api_fields.names ELSE <<>>

\* C7 as stated: the registry is the base fields followed by the declared
\* fields in declaration order and holds no name twice.
C7_RegistryWithoutDuplicates ==
    ~Idle =>
        \A kind \in KindsOf(endpoint) :
            LET registry == get_api_fields(endpoint, kind)
                base == BaseFields(endpoint)
            IN  /\ Len(registry) = Len(base) + Len(Declared(kind))
                /\ \A i \in 1..Len(base) : registry[i] = base[i]
                /\ \A i \in 1..Len(Declared(kind)) : registry[Len(base) + i] = Declared(kind)[i]
                /\ NoDuplicates(registry)

\* C7 amended: the registry is the base fields followed by the declared
\* fields in declaration order, every declared name kept; it holds no name
\* twice exactly when the declared names are distinct and none is a base
\* field, and a class with no declarations yields the base fields alone.
C7_RegistryIsConcatenation ==
    ~Idle =>
        \A kind \in KindsOf(endpoint) :
            LET registry == get_api_fields(endpoint, kind)
                base == BaseFields(endpoint)
            IN  /\ Len(registry) = Len(base) + Len(Declared(kind))
                /\ \A i \in 1..Len(base) : registry[i] = base[i]
                /\ \A i \in 1..Len(Declared(kind)) : registry[Len(base) + i] = Declared(kind)[i]
                /\ NoDuplicates(registry)
                     <=> /\ NoDuplicates(Declared(kind))
                         /\ Range(Declared(kind)) \cap Range(base) = {}
                /\ Declared(kind) = <<>> => registry = base

\* A class that declares title, served by the documents endpoint.
C7_Witness ==
    /\ IsDetail /\ response.status = 200
    /\ endpoint = "documents"
    /\ api_fields.names = <<"title", "body">>
    /\ get_api_fields("documents", "Document") = <<"title", "title", "body">>

\* The object of a detail view.
DetailObject ==
    Entity(Get(request.pk),
           IF endpoint = "pages" THEN SpecificClass(Get(request.pk))
           ELSE IF endpoint = "images" THEN "Image" ELSE "Document")

\* A field name that one of the three look-ups of the serializer finds on
\* the object: a child relation whose class declares fields, a model field
\* or an attribute.
Resolves(obj, field_name) ==
    \/ /\ obj.kind \in PageKinds
       /\ field_name \in ChildRelations(obj.kind)
       /\ HasApiFields(ChildModel(field_name))
    \/ field_name \in NativeFields(obj.kind)
    \/ field_name \in Attributes(obj.kind)

\* C8 as stated: the field keys of a detail document are exactly the names
\* of the registry of its kind.
C8_DetailHasWholeRegistry ==
    IsDetail /\ response.status = 200 =>
        FieldKeys(response.items[1])
          = Range(get_api_fields(endpoint, DetailObject.kind)) \ {"id", "meta"}

\* C8 amended: the field keys of a detail document are exactly the names
\* of the registry of its kind that resolve on the entity (as a child
\* relation, a model field or an attribute); a declared name that resolves
\* to nothing is left out, and no name outside the registry is present.
C8_DetailHasResolvableRegistry ==
    IsDetail /\ response.status = 200 =>
        /\ Keys(response.items[1])[1] = "id"
        /\ FieldKeys(response.items[1])
             = {f \in Range(get_api_fields(endpoint, DetailObject.kind)) :
                   Resolves(DetailObject, f)} \ {"id", "meta"}

\* The detail of a blog page whose class declares a child relation and a
\* name that resolves to nothing.
C8_Witness ==
    /\ IsDetail /\ response.status = 200
    /\ endpoint = "pages"
    /\ Get(request.pk) = 2
    /\ api_fields.names = <<"related_links", "ghost">>
    /\ Keys(response.items[1]) = <<"id", "meta", "title", "related_links">>

\* The names a fields parameter asks for; title when it is absent.
RequestedNames(req) ==
    IF Present(req.fields) THEN Range(Get(req.fields)) \ {","} ELSE {"title"}

\* C9: every document of a listing has id as its first key, and each other
\* key apart from meta is both asked for by the fields parameter (title by
\* default) and in the registry of the kind.
C9_ListingEmitsRequestedDeclaredFields ==
    IsListing /\ response.status = 200 =>
        \A i \in 1..Len(response.items) :
            /\ Keys(response.items[i])[1] = "id"
            /\ FieldKeys(response.items[i])
                 \subseteq RequestedNames(request)
                           \cap Range(get_api_fields(endpoint, ModelOf(endpoint, request)))

\* The first check of a pages listing that fails, in the order type,
\* field filter, child_of, order, offset, limit; status 0 when none does.
FirstFailure(req) ==
    IF ~TypeResolves("pages", req)
    THEN [status |-> 404, message |-> <<"Type doesn't exist">>]
    ELSE IF Present(req.filter) /\ Get(req.filter).name \notin NativeFields(ModelOf("pages", req))
    THEN [status |-> 400, message |-> <<Get(req.filter).name>>]
    ELSE IF ~ParentExists("pages", req)
    THEN [status |-> 404, message |-> <<"Parent page doesn't exist">>]
    ELSE IF Present(req.order) /\ ~OrderDeclared("pages", req)
    THEN [status |-> 400, message |-> OrderField(req)]
    ELSE IF OffsetOf(req) = None
    THEN [status |-> 400, message |-> <<"offset must be a positive integer">>]
    ELSE IF LimitOf(req) = None
    THEN [status |-> 400, message |-> <<"limit must be a positive integer">>]
    ELSE [status |-> 0, message |-> <<>>]

\* C10: a pages listing answers with the error of the first check that
\* fails and with nothing else: the status of that check, a message that
\* holds its text, no total_count and no documents.
C10_FirstFailingCheckAnswers ==
    IsListing /\ endpoint = "pages" =>
        LET failure == FirstFailure(request)
        IN  IF failure.status = 0 THEN response.status \notin {400, 404}
            ELSE /\ response.status = failure.status
                 /\ IsError(response)
                 /\ Range(failure.message) \subseteq Range(response.message)

\* The first check that the code of a pages listing makes and that fails:
\* FirstFailure without a check in the field filter, which has none.
FirstFailureInCode(req) ==
    IF ~TypeResolves("pages", req)
    THEN [status |-> 404, message |-> <<"Type doesn't exist">>]
    ELSE IF ~ParentExists("pages", req)
    THEN [status |-> 404, message |-> <<"Parent page doesn't exist">>]
    ELSE IF Present(req.order) /\ ~OrderDeclared("pages", req)
    THEN [status |-> 400, message |-> OrderField(req)]
    ELSE IF OffsetOf(req) = None
    THEN [status |-> 400, message |-> <<"offset must be a positive integer">>]
    ELSE IF LimitOf(req) = None
    THEN [status |-> 400, message |-> <<"limit must be a positive integer">>]
    ELSE [status |-> 0, message |-> <<>>]

\* The checks a pages listing does make answer in the order of C10: the
\* response is the error of the first of them that fails and nothing else.
ChecksInCodeAnswerInOrder ==
    IsListing /\ endpoint = "pages" =>
        LET failure == FirstFailureInCode(request)
        IN  IF failure.status = 0 THEN response.status \notin {400, 404}
            ELSE /\ response.status = failure.status
                 /\ IsError(response)
                 /\ Range(failure.message) \subseteq Range(response.message)

====
